---- MODULE Spec2Model ----
(***************************************************************************)
(* A model of the gong-api-inspector command line tools:                   *)
(*   src/inspector.py       the inspector (extract, group, search, lookup) *)
(*   src/parse_api_spec.py  the simpler parallel tool (its extractor)      *)
(*                                                                         *)
(* Python strings are sequences of one-character strings, so that lower(), *)
(* upper(), strip(), split(), substring tests and sorting are computed.    *)
(* Python dicts keep insertion order, so a dict is a sequence of           *)
(* [key, value] entries with distinct keys.                                *)
(***************************************************************************)
EXTENDS Integers, Sequences, FiniteSets, TLC

VARIABLES
    tool,       \* the program that runs: "inspector", "parse_api_spec" or "download"
    args,       \* the parsed command line
    cwd,        \* the files of the working directory, in the order glob lists them
    spec_file,  \* main's spec_file
    spec,       \* main's spec: the loaded specification document
    endpoints,  \* main's endpoints: the extractor's output
    grouped,    \* the grouping view the handler built
    out,        \* the lines printed to standard output
    err,        \* the lines printed to standard error
    pc,         \* main's position
    exit,       \* the exit status, Running until the process ends
    io          \* the requests sent and the file operations done, in order

vars == <<tool, args, cwd, spec_file, spec, endpoints, grouped, out, err, pc, exit, io>>

(***************************************************************************)
(* Bounds of the model.                                                    *)
(***************************************************************************)
\* paths in one specification document
MaxPaths == 2
\* operation keys in one specification document, over all its paths
MaxEndpoints == 3
\* entries of the document's top-level tags list
MaxGroups == 3

(***************************************************************************)
(* Strings.                                                                *)
(***************************************************************************)
\* The characters the model uses, in code point order.
CharOrder == <<"$", "-", ".", "/", "A", "B", "C", "D", "E", "F", "G", "H", "I", "J", "K",
               "L", "M", "N", "O", "P", "Q", "R", "S", "T", "U", "V", "W", "X",
               "Y", "Z", "_", "a", "b", "c", "d", "e", "f", "g", "h", "i", "j",
               "k", "l", "m", "n", "o", "p", "q", "r", "s", "t", "u", "v", "w",
               "x", "y", "z">>

Chars == {CharOrder[i] : i \in 1..Len(CharOrder)}

\* ord(c), as the position of c among the characters of the model
OrdMap == [c \in Chars |-> CHOOSE i \in 1..Len(CharOrder) : CharOrder[i] = c]

Ord(c) == OrdMap[c]

LowerMap ==
    [c \in Chars |->
        IF OrdMap[c] >= OrdMap["A"] /\ OrdMap[c] <= OrdMap["Z"]
        THEN CharOrder[OrdMap[c] - OrdMap["A"] + OrdMap["a"]] ELSE c]

UpperMap ==
    [c \in Chars |->
        IF OrdMap[c] >= OrdMap["a"] /\ OrdMap[c] <= OrdMap["z"]
        THEN CharOrder[OrdMap[c] - OrdMap["a"] + OrdMap["A"]] ELSE c]

LowerChar(c) == LowerMap[c]

UpperChar(c) == UpperMap[c]

\* str.lower()
Lower(s) == [i \in 1..Len(s) |-> LowerChar(s[i])]

\* str.upper()
Upper(s) == [i \in 1..Len(s) |-> UpperChar(s[i])]

\* needle in hay, for strings
Contains(hay, needle) ==
    \E i \in 0..(Len(hay) - Len(needle)) : SubSeq(hay, i + 1, i + Len(needle)) = needle

\* a < b for strings: by code point, a proper prefix first
StrLess(a, b) ==
    \E i \in 1..Len(b) :
        /\ i <= Len(a) + 1
        /\ \A j \in 1..(i - 1) : a[j] = b[j]
        /\ (i = Len(a) + 1 \/ Ord(a[i]) < Ord(b[i]))

\* str.strip(ch)
RECURSIVE LStrip(_, _)
LStrip(s, ch) == IF s # <<>> /\ Head(s) = ch THEN LStrip(Tail(s), ch) ELSE s

RECURSIVE RStrip(_, _)
RStrip(s, ch) ==
    IF s # <<>> /\ s[Len(s)] = ch THEN RStrip(SubSeq(s, 1, Len(s) - 1), ch) ELSE s

Strip(s, ch) == RStrip(LStrip(s, ch), ch)

\* str.split(ch): one more part than s has separators
RECURSIVE SplitFrom(_, _, _)
SplitFrom(s, ch, part) ==
    IF s = <<>> THEN <<part>>
    ELSE IF Head(s) = ch THEN <<part>> \o SplitFrom(Tail(s), ch, <<>>)
    ELSE SplitFrom(Tail(s), ch, Append(part, Head(s)))

Split(s, ch) == SplitFrom(s, ch, <<>>)

\* sep.join(parts)
RECURSIVE Join(_, _)
Join(parts, sep) ==
    IF parts = <<>> THEN <<>>
    ELSE IF Len(parts) = 1 THEN parts[1]
    ELSE parts[1] \o sep \o Join(Tail(parts), sep)

\* re.compile(pattern, re.IGNORECASE).search(s), for a pattern of literal characters
RegexSearch(pattern, s) == Contains(Lower(s), Lower(pattern))

(***************************************************************************)
(* Sequences as ordered collections.                                       *)
(***************************************************************************)
Range(s) == {s[i] : i \in 1..Len(s)}

\* The sequences of at most n distinct elements of S.
RECURSIVE DistinctSeqs(_, _)
DistinctSeqs(S, n) ==
    IF n = 0 THEN {<<>>}
    ELSE LET shorter == DistinctSeqs(S, n - 1)
         IN  shorter \cup {Append(q, x) : <<q, x>> \in
                              {qx \in shorter \X S : qx[2] \notin Range(qx[1])}}

\* The sequences of at most n elements of S.
RECURSIVE SeqsUpTo(_, _)
SeqsUpTo(S, n) ==
    IF n = 0 THEN {<<>>}
    ELSE LET shorter == SeqsUpTo(S, n - 1)
         IN  shorter \cup {Append(q, x) : <<q, x>> \in shorter \X S}

RECURSIVE SumSeq(_)
SumSeq(s) == IF s = <<>> THEN 0 ELSE Head(s) + SumSeq(Tail(s))

\* dict lookup in a sequence of [key, value] entries
HasKey(d, k) == \E i \in 1..Len(d) : d[i].key = k

Lookup(d, k) == d[CHOOSE i \in 1..Len(d) : d[i].key = k].value

Keys(d) == [i \in 1..Len(d) |-> d[i].key]

(***************************************************************************)
(* String constants of the program and of the documents of the model.      *)
(***************************************************************************)
S_get == <<"g", "e", "t">>

S_post == <<"p", "o", "s", "t">>

S_put == <<"p", "u", "t">>

S_delete == <<"d", "e", "l", "e", "t", "e">>

S_patch == <<"p", "a", "t", "c", "h">>

S_GET == <<"G", "E", "T">>

S_Post == <<"P", "o", "s", "t">>

S_parameters == <<"p", "a", "r", "a", "m", "e", "t", "e", "r", "s">>

S_ref == <<"$", "r", "e", "f">>

\* the reserved key of group_by_path
S_methods == <<"_", "m", "e", "t", "h", "o", "d", "s">>

S_untagged == <<"u", "n", "t", "a", "g", "g", "e", "d">>

\* the list of line 29 of inspector.py (line 35 of parse_api_spec.py)
HttpMethods == {S_get, S_post, S_put, S_delete, S_patch}

(***************************************************************************)
(* Specification documents.                                                *)
(*   document   [paths: dict path -> path item, tags: list of tag objects] *)
(*   path item  dict key -> operation object                               *)
(*   operation  a function from the field names it holds to their values   *)
(***************************************************************************)
FieldNames == {"summary", "description", "parameters", "requestBody", "responses",
               "tags", "operationId"}

\* operation.get(field, default)
Get(operation, field, default) ==
    IF field \in DOMAIN operation THEN operation[field] ELSE default

\* The operation object holding the fields of `fields`, with the values of `full`.
Restrict(full, fields) == [f \in fields |-> full[f]]

EmptyOperation == Restrict([summary |-> <<>>], {})

Entry(k, v) == [key |-> k, value |-> v]

\* The path items of at most n keys of KeyPool, each with an operation of OpPool.
RECURSIVE Items(_, _, _)
Items(KeyPool, OpPool, n) ==
    IF n = 0 \/ KeyPool = {} THEN {<<>>}
    ELSE LET shorter == Items(KeyPool, OpPool, n - 1)
         IN  shorter \cup
             UNION {{Append(it, Entry(k, op)) : k \in KeyPool \ Range(Keys(it)), op \in OpPool}
                    : it \in shorter}

\* The `paths` objects of at most np paths of PathPool and at most ne keys in all.
RECURSIVE PathsObjects(_, _, _, _, _)
PathsObjects(PathPool, KeyPool, OpPool, np, ne) ==
    IF np = 0 \/ PathPool = {} THEN {<<>>}
    ELSE {<<>>} \cup
         UNION {UNION {{<<Entry(p, it)>> \o rest :
                           rest \in PathsObjects(PathPool \ {p}, KeyPool, OpPool,
                                                 np - 1, ne - Len(it))}
                       : it \in Items(KeyPool, OpPool, ne)}
                : p \in PathPool}

Document(paths, tags) == [paths |-> paths, tags |-> tags]

EmptyDocument == Document(<<>>, <<>>)

(***************************************************************************)
(* The endpoint extractors.                                                *)
(***************************************************************************)
\* inspector.py, lines 30-38: the normalized operation record
OperationRecord(operation) ==
    [summary     |-> Get(operation, "summary", <<>>),
     description |-> Get(operation, "description", <<>>),
     parameters  |-> Get(operation, "parameters", <<>>),
     requestBody |-> Get(operation, "requestBody", <<>>),
     responses   |-> Get(operation, "responses", <<>>),
     tags        |-> Get(operation, "tags", <<>>),
     operationId |-> Get(operation, "operationId", <<>>)]

\* parse_api_spec.py, lines 36-42: the record of the simpler tool
SimpleOperationRecord(operation) ==
    [summary     |-> Get(operation, "summary", <<>>),
     description |-> Get(operation, "description", <<>>),
     parameters  |-> Get(operation, "parameters", <<>>),
     requestBody |-> Get(operation, "requestBody", <<>>),
     responses   |-> Get(operation, "responses", <<>>)]

\* a slip of line 29: the key is compared as it is written
IsHttpMethod_CaseSensitive(method) == method \in HttpMethods

\* line 29: method.lower() in ['get', 'post', 'put', 'delete', 'patch']
IsHttpMethod(method) == Lower(method) \in HttpMethods

\* The entries of a path item the extractor keeps, in the item's order.
OperationEntries(path_data) ==
    LET Kept(e) == IsHttpMethod(e.key) IN SelectSeq(path_data, Kept)

\* inspector.py extract_endpoints
extract_endpoints(doc) ==
    [i \in 1..Len(doc.paths) |->
        LET kept == OperationEntries(doc.paths[i].value)
        IN  Entry(doc.paths[i].key,
                  [j \in 1..Len(kept) |->
                      Entry(kept[j].key, OperationRecord(kept[j].value))])]

\* parse_api_spec.py extract_endpoints
simple_extract_endpoints(doc) ==
    [i \in 1..Len(doc.paths) |->
        LET kept == OperationEntries(doc.paths[i].value)
        IN  Entry(doc.paths[i].key,
                  [j \in 1..Len(kept) |->
                      Entry(kept[j].key, SimpleOperationRecord(kept[j].value))])]

(***************************************************************************)
(* The command line and the working directory.                             *)
(***************************************************************************)
Running == -1

\* store_true options of the mutually exclusive group
FlagActions == {"list", "info", "auth", "list_groups"}

\* options of the group that take a value
ValueActions == {"endpoint", "schema", "search", "category", "describe_group"}

\* An option that was not given is None; None and '' are both false in main's tests.
Args(action, value, grouped_by, method, file) ==
    [action |-> action, value |-> value, grouped_by |-> grouped_by, method |-> method,
     spec_file |-> file]

\* args.<action> is true
IsSet(a) == args.action = a /\ (a \in FlagActions \/ args.value # <<>>)

S_suffix == <<"-", "o", "p", "e", "n", "a", "p", "i", ".", "j", "s", "o", "n">>

S_gong_openapi == <<"g", "o", "n", "g">> \o S_suffix

S_spec_json == <<"s", "p", "e", "c", ".", "j", "s", "o", "n">>

\* str.endswith(suffix)
EndsWith(s, suffix) ==
    Len(s) >= Len(suffix) /\ SubSeq(s, Len(s) - Len(suffix) + 1, Len(s)) = suffix

\* A file: its name, whether its text is JSON, and the document it then holds.
File(name, valid, doc) == [name |-> name, valid |-> valid, doc |-> doc]

\* glob.glob('*-openapi.json')
Glob(files) == LET Matches(f) == EndsWith(f.name, S_suffix) IN SelectSeq(files, Matches)

FileExists(name) == \E i \in 1..Len(cwd) : cwd[i].name = name

FileNamed(name) == cwd[CHOOSE i \in 1..Len(cwd) : cwd[i].name = name]

Text(s) == [k |-> "text", s |-> s]

(***************************************************************************)
(* main of inspector.py, up to the dispatch.                               *)
(***************************************************************************)
\* lines 314-319 with find_spec_file, lines 215-224
FindSpecFile ==
    /\ tool = "inspector"
    /\ pc = "start"
    /\ IF args.spec_file # <<>>
       THEN /\ spec_file' = args.spec_file
            /\ err' = IF EndsWith(args.spec_file, S_suffix) THEN err
                      ELSE Append(err, Text("Warning: Spec file should follow the naming pattern"))
            /\ pc' = "parse"
            /\ exit' = exit
       ELSE IF Glob(cwd) = <<>>
       THEN /\ err' = Append(err, Text("Error: No *-openapi.json file found"))
            /\ exit' = 1
            /\ pc' = "exited"
            /\ spec_file' = spec_file
       ELSE /\ spec_file' = Glob(cwd)[1].name
            /\ pc' = "parse"
            /\ UNCHANGED <<err, exit>>
    /\ UNCHANGED <<tool, args, cwd, spec, endpoints, grouped, out, io>>

\* line 322 with parse_openapi_spec, lines 9-19
ParseOpenapiSpec ==
    /\ tool = "inspector"
    /\ pc = "parse"
    /\ IF ~FileExists(spec_file)
       THEN /\ err' = Append(err, Text("File not found"))
            /\ exit' = 1
            /\ pc' = "exited"
            /\ spec' = spec
       ELSE IF ~FileNamed(spec_file).valid
       THEN /\ err' = Append(err, Text("Error parsing JSON"))
            /\ exit' = 1
            /\ pc' = "exited"
            /\ spec' = spec
       ELSE /\ spec' = FileNamed(spec_file).doc
            /\ pc' = "extract"
            /\ UNCHANGED <<err, exit>>
    /\ UNCHANGED <<tool, args, cwd, spec_file, endpoints, grouped, out, io>>

\* line 323
ExtractEndpoints ==
    /\ tool = "inspector"
    /\ pc = "extract"
    /\ endpoints' = extract_endpoints(spec)
    /\ pc' = "dispatch"
    /\ UNCHANGED <<tool, args, cwd, spec_file, spec, grouped, out, err, exit, io>>

\* lines 369-372: no branch of the dispatch is taken
PrintHelp ==
    /\ tool = "inspector"
    /\ pc = "dispatch"
    /\ \A a \in FlagActions \cup ValueActions : ~IsSet(a)
    /\ out' = Append(out, [k |-> "help"])
    /\ exit' = 0
    /\ pc' = "exited"
    /\ UNCHANGED <<tool, args, cwd, spec_file, spec, endpoints, grouped, err, io>>

(***************************************************************************)
(* main of parse_api_spec.py, up to the dispatch.                          *)
(***************************************************************************)
\* parse_api_spec.py line 106 with parse_openapi_spec, lines 7-20
SimpleParseOpenapiSpec ==
    /\ tool = "parse_api_spec"
    /\ pc = "start"
    /\ spec_file' = args.spec_file
    /\ IF ~FileExists(args.spec_file)
       THEN /\ err' = Append(err, Text("File not found"))
            /\ exit' = 1
            /\ pc' = "exited"
            /\ spec' = spec
       ELSE IF ~FileNamed(args.spec_file).valid
       THEN /\ err' = Append(err, Text("Error parsing JSON"))
            /\ exit' = 1
            /\ pc' = "exited"
            /\ spec' = spec
       ELSE /\ spec' = FileNamed(args.spec_file).doc
            /\ pc' = "extract"
            /\ UNCHANGED <<err, exit>>
    /\ UNCHANGED <<tool, args, cwd, endpoints, grouped, out, io>>

\* parse_api_spec.py line 107
SimpleExtractEndpoints ==
    /\ tool = "parse_api_spec"
    /\ pc = "extract"
    /\ endpoints' = simple_extract_endpoints(spec)
    /\ pc' = "dispatch"
    /\ UNCHANGED <<tool, args, cwd, spec_file, spec, grouped, out, err, exit, io>>

(***************************************************************************)
(* sorted().                                                               *)
(***************************************************************************)
\* x put into the sorted sequence s behind every entry whose key is not greater
RECURSIVE InsertByKey(_, _)
InsertByKey(x, s) ==
    IF s = <<>> THEN <<x>>
    ELSE IF StrLess(x.key, Head(s).key) THEN <<x>> \o s
    ELSE <<Head(s)>> \o InsertByKey(x, Tail(s))

\* sorted(d.items()) for a dict, sorted(s, key=...) for entries keyed by the sort key:
\* a stable sort
RECURSIVE SortedByKey(_)
SortedByKey(s) ==
    IF s = <<>> THEN <<>>
    ELSE InsertByKey(s[Len(s)], SortedByKey(SubSeq(s, 1, Len(s) - 1)))

RECURSIVE Flatten(_)
Flatten(ss) == IF ss = <<>> THEN <<>> ELSE Head(ss) \o Flatten(Tail(ss))

PathLine(path) == [k |-> "path", path |-> path]

MethodLine(method, summary) == [k |-> "method", method |-> method, summary |-> summary]

(***************************************************************************)
(* --list without --grouped-by, inspector.py lines 363-368.                *)
(***************************************************************************)
\* line 367: not args.method or args.method.upper() == method.upper()
MethodSelected(filter, method) == filter = <<>> \/ Upper(filter) = Upper(method)

\* lines 364-368
PlainListing(eps, filter) ==
    <<Text("Available Endpoints:")>> \o
    Flatten([i \in 1..Len(eps) |->
        LET e   == SortedByKey(eps)[i]
            ms  == SortedByKey(e.value)
            Sel(m) == MethodSelected(filter, m.key)
            sel == SelectSeq(ms, Sel)
        IN  <<PathLine(e.key)>> \o
            [j \in 1..Len(sel) |-> MethodLine(Upper(sel[j].key), sel[j].value.summary)]])

ListPlain ==
    /\ tool = "inspector"
    /\ pc = "dispatch"
    /\ IsSet("list")
    /\ args.grouped_by = "none"
    /\ out' = out \o PlainListing(endpoints, args.method)
    /\ exit' = 0
    /\ pc' = "exited"
    /\ UNCHANGED <<tool, args, cwd, spec_file, spec, endpoints, grouped, err, io>>

(***************************************************************************)
(* parse_api_spec.py: list_endpoints and the branches of main that call it.*)
(***************************************************************************)
\* parse_api_spec.py print_api_info, lines 46-53, of a document without `info`
ApiInfoLines ==
    <<Text("API Information:"), Text("Title: "), Text("Version: "),
      Text("Description:"), Text("")>>

\* parse_api_spec.py list_endpoints, lines 55-65
list_endpoints(eps, method) ==
    <<Text("Available Endpoints:")>> \o
    Flatten([i \in 1..Len(eps) |->
        LET e == eps[i]
        IN  IF method # <<>>
            THEN IF HasKey(e.value, Lower(method))
                 THEN <<[k |-> "endpoint", path |-> e.key, method |-> Upper(method),
                         summary |-> Lookup(e.value, Lower(method)).summary]>>
                 ELSE <<>>
            ELSE <<PathLine(e.key)>> \o
                 [j \in 1..Len(e.value) |->
                     MethodLine(Upper(e.value[j].key), e.value[j].value.summary)]])

\* parse_api_spec.py lines 114-120
SimpleList ==
    /\ tool = "parse_api_spec"
    /\ pc = "dispatch"
    /\ args.action \in {"list", "none"}
    /\ out' = out \o (IF args.action = "none"
                      THEN ApiInfoLines \o <<Text("====")>>
                      ELSE <<>>) \o list_endpoints(endpoints, args.method)
    /\ exit' = 0
    /\ pc' = "exited"
    /\ UNCHANGED <<tool, args, cwd, spec_file, spec, endpoints, grouped, err, io>>

(***************************************************************************)
(* Starting states.                                                        *)
(***************************************************************************)
Start(t, a, files) ==
    /\ tool = t
    /\ args = a
    /\ cwd = files
    /\ spec_file = <<>>
    /\ spec = EmptyDocument
    /\ endpoints = <<>>
    /\ grouped = [view |-> "none"]
    /\ out = <<>>
    /\ err = <<>>
    /\ pc = "start"
    /\ exit = Running
    /\ io = <<>>

\* The working directory that holds one file, gong-openapi.json, with document doc.
OneSpecFile(doc) == <<File(S_gong_openapi, TRUE, doc)>>

S_a == <<"/", "a">>

S_b == <<"/", "b">>

S_Users == <<"U", "s", "e", "r", "s">>

S_Usage == <<"U", "s", "a", "g", "e">>

S_Other == <<"O", "t", "h", "e", "r">>

S_ListUsers == <<"L", "i", "s", "t", "U", "s", "e", "r", "s">>

(***************************************************************************)
(* The extractors, on documents whose operations hold some of the fields.   *)
(***************************************************************************)
FullOperation ==
    [summary     |-> S_ListUsers,
     description |-> <<"D">>,
     parameters  |-> <<[name |-> <<"i", "d">>, in |-> <<"p", "a", "t", "h">>]>>,
     requestBody |-> <<Entry(<<"c">>, <<>>)>>,
     responses   |-> <<Entry(<<"O", "K">>, [description |-> <<"o", "k">>])>>,
     tags        |-> <<S_Users>>,
     operationId |-> <<"o", "p">>]

ExtractOperations ==
    {Restrict(FullOperation, {"summary", "parameters", "tags"}),
     Restrict(FullOperation, {"description", "requestBody", "responses", "operationId"})}

ExtractKeys == {S_get, S_Post, S_parameters, S_ref}

InitExtract ==
    \E t \in {"inspector", "parse_api_spec"} :
    \E paths \in PathsObjects({S_a, S_b}, ExtractKeys, ExtractOperations,
                              MaxPaths, MaxEndpoints) :
        Start(t, Args("list", <<>>, "none", <<>>, S_gong_openapi),
              OneSpecFile(Document(paths, <<>>)))

NextExtract ==
    \/ FindSpecFile
    \/ ParseOpenapiSpec
    \/ ExtractEndpoints
    \/ ListPlain
    \/ SimpleParseOpenapiSpec
    \/ SimpleExtractEndpoints
    \/ SimpleList

SpecExtract == InitExtract /\ [][NextExtract]_vars

(***************************************************************************)
(* group_by_method and group_by_tag: defaultdict(list) filled by append.   *)
(***************************************************************************)
\* grouped[k].append(x) on a defaultdict(list)
AppendTo(d, k, x) ==
    IF HasKey(d, k)
    THEN [i \in 1..Len(d) |->
             IF d[i].key = k THEN Entry(k, Append(d[i].value, x)) ELSE d[i]]
    ELSE Append(d, Entry(k, <<x>>))

\* the appends of a sequence of <<key, element>> pairs, in order
RECURSIVE AppendAll(_, _)
AppendAll(d, pairs) ==
    IF pairs = <<>> THEN d
    ELSE AppendAll(AppendTo(d, Head(pairs)[1], Head(pairs)[2]), Tail(pairs))

\* inspector.py group_by_method, lines 55-61
group_by_method(eps) ==
    AppendAll(<<>>,
        Flatten([i \in 1..Len(eps) |->
            [j \in 1..Len(eps[i].value) |->
                <<Upper(eps[i].value[j].key), eps[i].key>>]]))

\* line 68: details.get('tags', ['untagged'])
TagsOf(details) == Get(details, "tags", <<S_untagged>>)

TagRecord(path, method, details) ==
    [path |-> path, method |-> Upper(method), summary |-> details.summary]

\* inspector.py group_by_tag, lines 63-75
group_by_tag(eps) ==
    AppendAll(<<>>,
        Flatten([i \in 1..Len(eps) |->
            Flatten([j \in 1..Len(eps[i].value) |->
                LET m == eps[i].value[j]
                IN  [t \in 1..Len(TagsOf(m.value)) |->
                        <<TagsOf(m.value)[t], TagRecord(eps[i].key, m.key, m.value)>>]])]))

(***************************************************************************)
(* --list --grouped-by method, lines 347-354, and tag, lines 355-361.      *)
(***************************************************************************)
\* sorted(paths) for a list of strings
SortedStrings(ss) ==
    LET keyed == [i \in 1..Len(ss) |-> Entry(ss[i], ss[i])]
    IN  Keys(SortedByKey(keyed))

\* lines 349-354
MethodListing(g, filter) ==
    <<Text("Endpoints by Method:")>> \o
    Flatten([i \in 1..Len(g) |->
        LET e == SortedByKey(g)[i]
        IN  IF filter = <<>> \/ Upper(filter) = e.key
            THEN <<[k |-> "verb", method |-> e.key]>> \o
                 [j \in 1..Len(e.value) |-> PathLine(SortedStrings(e.value)[j])]
            ELSE <<>>])

ListByMethod ==
    /\ tool = "inspector"
    /\ pc = "dispatch"
    /\ IsSet("list")
    /\ args.grouped_by = "method"
    /\ grouped' = [view |-> "method", data |-> group_by_method(endpoints)]
    /\ out' = out \o MethodListing(group_by_method(endpoints), args.method)
    /\ exit' = 0
    /\ pc' = "exited"
    /\ UNCHANGED <<tool, args, cwd, spec_file, spec, endpoints, err, io>>

\* sorted(records, key=lambda x: x['path'])
SortedByPath(records) ==
    LET keyed == [i \in 1..Len(records) |-> Entry(records[i].path, records[i])]
        sorted == SortedByKey(keyed)
    IN  [i \in 1..Len(sorted) |-> sorted[i].value]

\* lines 357-361
TagListing(g) ==
    <<Text("Endpoints by Tag:")>> \o
    Flatten([i \in 1..Len(g) |->
        LET e == SortedByKey(g)[i]
        IN  <<[k |-> "tag", tag |-> e.key]>> \o
            [j \in 1..Len(e.value) |->
                [k |-> "tagged", path |-> SortedByPath(e.value)[j].path,
                 method |-> SortedByPath(e.value)[j].method]]])

ListByTag ==
    /\ tool = "inspector"
    /\ pc = "dispatch"
    /\ IsSet("list")
    /\ args.grouped_by = "tag"
    /\ grouped' = [view |-> "tag", data |-> group_by_tag(endpoints)]
    /\ out' = out \o TagListing(group_by_tag(endpoints))
    /\ exit' = 0
    /\ pc' = "exited"
    /\ UNCHANGED <<tool, args, cwd, spec_file, spec, endpoints, err, io>>

(***************************************************************************)
(* group_by_path, lines 42-53.  The tree is a dict of dicts; here it is    *)
(* the sequence, in insertion order, of the dicts below the root, each     *)
(* named by the chain of keys that leads to it.  A dict is a node made at  *)
(* line 50, or the methods dict of a path stored at line 52: the very      *)
(* object endpoints[path], so that a later path walking through the key    *)
(* "_methods" adds its keys to the extractor's output.  The paths of the   *)
(* model have no segment below "_methods" that is an HTTP method key.      *)
(***************************************************************************)
TreeHas(t, c) == \E i \in 1..Len(t) : t[i].chain = c

TreeAt(t, c) == t[CHOOSE i \in 1..Len(t) : t[i].chain = c]

IsBelow(c, x) == Len(x) > Len(c) /\ SubSeq(x, 1, Len(c)) = c

\* The keys of the dict at chain c that the grouping added, in insertion order.
ChildKeys(t, c) ==
    LET IsChild(e) == Len(e.chain) = Len(c) + 1 /\ IsBelow(c, e.chain)
        kids == SelectSeq(t, IsChild)
    IN  [i \in 1..Len(kids) |-> kids[i].chain[Len(kids[i].chain)]]

IsMethodsDict(t, c) == c # <<>> /\ TreeAt(t, c).kind = "methods"

\* The key `key` was added to the dict at chain c; when that dict is the methods
\* dict of a path, the key was added to endpoints[path].
NoteAdded(st, c, key) ==
    IF IsMethodsDict(st.tree, c)
    THEN [st.added EXCEPT ![TreeAt(st.tree, c).owner] = Append(@, key)]
    ELSE st.added

\* lines 48-51: the loop over the parts, from the dict at chain cur
RECURSIVE WalkParts(_, _, _)
WalkParts(st, cur, parts) ==
    IF parts = <<>> THEN [st |-> st, cur |-> cur]
    ELSE LET next == Append(cur, Head(parts))
             made == IF TreeHas(st.tree, next) THEN st
                     ELSE [tree  |-> Append(st.tree,
                                        [chain |-> next, kind |-> "node", owner |-> 0]),
                           added |-> NoteAdded(st, cur, Head(parts))]
         IN  WalkParts(made, next, Tail(parts))

\* line 52: current['_methods'] = methods, for the path of index i
StoreMethods(st, cur, i) ==
    LET c     == Append(cur, S_methods)
        entry == [chain |-> c, kind |-> "methods", owner |-> i]
        IsKept(e) == ~IsBelow(c, e.chain)
        kept  == SelectSeq(st.tree, IsKept)
    IN  IF TreeHas(st.tree, c)
        THEN [tree  |-> [n \in 1..Len(kept) |->
                            IF kept[n].chain = c THEN entry ELSE kept[n]],
              added |-> st.added]
        ELSE [tree  |-> Append(st.tree, entry),
              added |-> NoteAdded(st, cur, S_methods)]

\* line 46: path.strip('/').split('/')
PathParts(path) == Split(Strip(path, "/"), "/")

\* lines 45-52 for the paths from index i on
RECURSIVE GroupPaths(_, _, _)
GroupPaths(st, eps, i) ==
    IF i > Len(eps) THEN st
    ELSE LET walked == WalkParts(st, <<>>, PathParts(eps[i].key))
         IN  GroupPaths(StoreMethods(walked.st, walked.cur, i), eps, i + 1)

\* inspector.py group_by_path: the tree, and the keys it added to each methods dict
group_by_path(eps) ==
    GroupPaths([tree |-> <<>>, added |-> [i \in 1..Len(eps) |-> <<>>]], eps, 1)

\* endpoints after group_by_path: the methods dicts with the keys the grouping added
AliasedEndpoints(eps, added) ==
    [i \in 1..Len(eps) |->
        Entry(eps[i].key,
              eps[i].value \o [n \in 1..Len(added[i]) |->
                                  Entry(added[i][n], [alias |-> TRUE])])]

(***************************************************************************)
(* print_grouped_endpoints, lines 137-145.                                 *)
(***************************************************************************)
\* The items of the dict at chain c, a value of the key "_methods", as line 141
\* iterates them: <<key, kind>> with kind "record" for an operation record,
\* "node" for a defaultdict, "methods" for a plain methods dict.
MethodItems(t, eps, c) ==
    LET own  == IF TreeAt(t, c).kind = "methods"
                THEN eps[TreeAt(t, c).owner].value ELSE <<>>
        kids == ChildKeys(t, c)
    IN  [i \in 1..Len(own) |->
            [key |-> own[i].key, kind |-> "record", summary |-> own[i].value.summary]]
        \o
        [i \in 1..Len(kids) |->
            [key |-> kids[i], kind |-> TreeAt(t, Append(c, kids[i])).kind,
             summary |-> <<"{", "}">>]]

\* lines 141-142: a line for each item; details['summary'] of a defaultdict is {},
\* of a plain methods dict it raises KeyError
PrintMethods(t, eps, c, indent) ==
    LET items == MethodItems(t, eps, c)
        bad   == {i \in 1..Len(items) : items[i].kind = "methods"}
        stop  == IF bad = {} THEN Len(items) ELSE (CHOOSE i \in bad : \A j \in bad : i <= j) - 1
    IN  [lines   |-> [i \in 1..stop |->
                         [k |-> "method", method |-> Upper(items[i].key),
                          summary |-> items[i].summary, indent |-> indent]],
         crashed |-> bad # {}]

RECURSIVE PrintKeys(_, _, _, _, _)
RECURSIVE print_grouped_endpoints(_, _, _, _)
\* the body of the loop of line 139 for the keys `keys` of the dict at chain c
PrintKeys(t, eps, c, keys, indent) ==
    IF keys = <<>> THEN [lines |-> <<>>, crashed |-> FALSE]
    ELSE LET key   == Head(keys)
             first == IF key = S_methods
                      THEN PrintMethods(t, eps, Append(c, key), indent)
                      ELSE LET below == print_grouped_endpoints(t, eps, Append(c, key),
                                                                indent + 1)
                           IN  [lines   |-> <<[k |-> "segment", key |-> key,
                                               indent |-> indent]>> \o below.lines,
                                crashed |-> below.crashed]
         IN  IF first.crashed THEN first
             ELSE LET rest == PrintKeys(t, eps, c, Tail(keys), indent)
                  IN  [lines |-> first.lines \o rest.lines, crashed |-> rest.crashed]

\* print_grouped_endpoints of the dict at chain c: the lines printed, and whether
\* the walk ended in a KeyError
print_grouped_endpoints(t, eps, c, indent) ==
    PrintKeys(t, eps, c, SortedStrings(ChildKeys(t, c)), indent)

\* lines 343-346
ListByPath ==
    /\ tool = "inspector"
    /\ pc = "dispatch"
    /\ IsSet("list")
    /\ args.grouped_by = "path"
    /\ LET g       == group_by_path(endpoints)
           printed == print_grouped_endpoints(g.tree, endpoints, <<>>, 0)
       IN  /\ grouped' = [view |-> "path", data |-> g.tree]
           /\ endpoints' = AliasedEndpoints(endpoints, g.added)
           /\ out' = out \o <<Text("Endpoints by Path:")>> \o printed.lines
           /\ err' = IF printed.crashed THEN Append(err, Text("KeyError: 'summary'"))
                     ELSE err
           /\ exit' = IF printed.crashed THEN 1 ELSE 0
    /\ pc' = "exited"
    /\ UNCHANGED <<tool, args, cwd, spec_file, spec, io>>

(***************************************************************************)
(* search_endpoints, lines 117-135.                                        *)
(***************************************************************************)
MethodLines(methods) ==
    [j \in 1..Len(methods) |-> MethodLine(Upper(methods[j].key), methods[j].value.summary)]

\* lines 124-128: the path and every method of an endpoint whose path matches; the
\* `continue` of line 128 continues the loop over the methods, which it ends anyway
PathMatchLines(e, pattern) ==
    IF RegexSearch(pattern, e.key) THEN <<PathLine(e.key)>> \o MethodLines(e.value)
    ELSE <<>>

\* lines 131-132
TextMatches(details, pattern) ==
    RegexSearch(pattern, details.summary) \/ RegexSearch(pattern, details.description)

\* a slip of lines 130-135: no break after the first method that matches
TextMatchLines_NoBreak(e, pattern) ==
    LET Hit(m) == TextMatches(m.value, pattern)
        hits == SelectSeq(e.value, Hit)
    IN  Flatten([j \in 1..Len(hits) |->
                    <<PathLine(e.key), MethodLine(Upper(hits[j].key), hits[j].value.summary)>>])

\* lines 130-135: the path and the first method whose summary or description matches
TextMatchLines(e, pattern) ==
    LET hits == {j \in 1..Len(e.value) : TextMatches(e.value[j].value, pattern)}
    IN  IF hits = {} THEN <<>>
        ELSE LET first == CHOOSE j \in hits : \A n \in hits : j <= n
             IN  <<PathLine(e.key),
                   MethodLine(Upper(e.value[first].key), e.value[first].value.summary)>>

\* inspector.py search_endpoints: line 130 follows line 128 for every path
search_endpoints(eps, pattern) ==
    <<Text("Matching Endpoints:")>> \o
    Flatten([i \in 1..Len(eps) |->
                PathMatchLines(eps[i], pattern) \o TextMatchLines(eps[i], pattern)])

\* lines 334-335
Search ==
    /\ tool = "inspector"
    /\ pc = "dispatch"
    /\ IsSet("search")
    /\ out' = out \o search_endpoints(endpoints, args.value)
    /\ exit' = 0
    /\ pc' = "exited"
    /\ UNCHANGED <<tool, args, cwd, spec_file, spec, endpoints, grouped, err, io>>

(***************************************************************************)
(* Documents and patterns for the search.                                  *)
(***************************************************************************)
S_us == <<"u", "s">>

S_L == <<"L">>

S_slash_us == <<"/", "u", "s">>

\* summaries and descriptions that match "us", "L", or neither
SearchOperations ==
    {EmptyOperation,
     [summary |-> <<"U", "s">>],
     [summary |-> <<"l">>],
     [description |-> <<"U", "S">>],
     [summary |-> <<"l">>, description |-> <<"U", "S">>],
     [summary |-> <<"U", "s">>, description |-> <<"U", "S">>]}

SearchDocuments ==
    {Document(paths, <<>>) :
        paths \in PathsObjects({S_slash_us, S_b}, {S_get, S_post}, SearchOperations,
                               MaxPaths, MaxEndpoints)}

InitSearch ==
    \E doc \in SearchDocuments :
    \E pattern \in {S_us, S_L} :
        Start("inspector", Args("search", pattern, "none", <<>>, <<>>), OneSpecFile(doc))

NextSearch ==
    \/ FindSpecFile
    \/ ParseOpenapiSpec
    \/ ExtractEndpoints
    \/ Search

SpecSearch == InitSearch /\ [][NextSearch]_vars

(***************************************************************************)
(* show_endpoint_details, lines 147-176.                                   *)
(***************************************************************************)
S_None == <<"N", "o", "n", "e">>

\* lines 164-167
ParameterLines(parameters) ==
    Flatten([n \in 1..Len(parameters) |->
        <<[k |-> "param", name |-> Get(parameters[n], "name", S_None),
           in |-> Get(parameters[n], "in", S_None)],
          [k |-> "param_description", v |-> Get(parameters[n], "description", <<>>)],
          [k |-> "param_required", v |-> Get(parameters[n], "required", FALSE)]>>])

\* lines 155-176, for one method of the endpoint
DetailLines(method, details) ==
    <<[k |-> "Method", v |-> Upper(method)],
      [k |-> "Summary", v |-> details.summary],
      [k |-> "Description", v |-> details.description]>>
    \o (IF details.tags # <<>>
        THEN <<[k |-> "Tags", v |-> Join(details.tags, <<",", " ">>)]>> ELSE <<>>)
    \o (IF details.parameters # <<>>
        THEN <<Text("Parameters:")>> \o ParameterLines(details.parameters) ELSE <<>>)
    \o (IF details.requestBody # <<>>
        THEN <<Text("Request Body:"), [k |-> "json", v |-> details.requestBody]>>
        ELSE <<>>)
    \o (IF details.responses # <<>>
        THEN <<Text("Responses:")>> \o
             [n \in 1..Len(details.responses) |->
                 [k |-> "response", status |-> details.responses[n].key,
                  description |-> Get(details.responses[n].value, "description", <<>>)]]
        ELSE <<>>)

\* inspector.py show_endpoint_details: the lines for standard output and for
\* standard error
show_endpoint_details(eps, path) ==
    IF ~HasKey(eps, path)
    THEN [out |-> <<>>, err |-> <<[k |-> "endpoint_not_found", path |-> path]>>]
    ELSE [out |-> <<[k |-> "endpoint", path |-> path]>> \o
                  Flatten([j \in 1..Len(Lookup(eps, path)) |->
                              DetailLines(Lookup(eps, path)[j].key,
                                          Lookup(eps, path)[j].value)]),
          err |-> <<>>]

(***************************************************************************)
(* show_category_details, lines 178-213.                                   *)
(***************************************************************************)
\* a slip of line 184: the names are compared as they are written
CategoryMatches_CaseSensitive(category, tag) == Contains(tag, category)

\* line 184: category.lower() in tag.lower()
CategoryMatches(category, tag) == Contains(Lower(tag), Lower(category))

CandidateLines(tags) == [n \in 1..Len(tags) |-> [k |-> "candidate", tag |-> tags[n]]]

\* lines 200-213: the dump for the one matching tag, with the lines for standard error
CategoryDump(eps, tag, records) ==
    LET sorted  == SortedByPath(records)
        details == [n \in 1..Len(sorted) |-> show_endpoint_details(eps, sorted[n].path)]
    IN  [out |-> <<[k |-> "header", tag |-> tag], Text("Summary:")>> \o
                 [n \in 1..Len(sorted) |->
                     [k |-> "summary", method |-> sorted[n].method,
                      path |-> sorted[n].path, summary |-> sorted[n].summary]] \o
                 <<Text("Detailed Specifications:")>> \o
                 Flatten([n \in 1..Len(sorted) |->
                             <<Text("====")>> \o details[n].out]),
         err |-> Flatten([n \in 1..Len(sorted) |-> details[n].err])]

\* inspector.py show_category_details
show_category_details(eps, category) ==
    LET g == group_by_tag(eps)
        IsMatch(tag) == CategoryMatches(category, tag)
        matches == SelectSeq(Keys(g), IsMatch)
    IN  IF matches = <<>>
        THEN [out |-> <<Text("No category found matching"),
                        Text("Available categories:")>> \o
                      CandidateLines(SortedStrings(Keys(g))),
              err |-> <<>>]
        ELSE IF Len(matches) > 1
        THEN [out |-> <<Text("Multiple categories match")>> \o CandidateLines(matches),
              err |-> <<>>]
        ELSE CategoryDump(eps, matches[1], Lookup(g, matches[1]))

\* lines 336-337
ShowCategory ==
    /\ tool = "inspector"
    /\ pc = "dispatch"
    /\ IsSet("category")
    /\ grouped' = [view |-> "tag", data |-> group_by_tag(endpoints)]
    /\ out' = out \o show_category_details(endpoints, args.value).out
    /\ err' = err \o show_category_details(endpoints, args.value).err
    /\ exit' = 0
    /\ pc' = "exited"
    /\ UNCHANGED <<tool, args, cwd, spec_file, spec, endpoints, io>>

(***************************************************************************)
(* --endpoint, lines 332-333.                                              *)
(***************************************************************************)
ShowEndpoint ==
    /\ tool = "inspector"
    /\ pc = "dispatch"
    /\ IsSet("endpoint")
    /\ out' = out \o show_endpoint_details(endpoints, args.value).out
    /\ err' = err \o show_endpoint_details(endpoints, args.value).err
    /\ exit' = 0
    /\ pc' = "exited"
    /\ UNCHANGED <<tool, args, cwd, spec_file, spec, endpoints, grouped, io>>

(***************************************************************************)
(* The endpoint groups: the document's `tags` list, lines 226-265.         *)
(* A tag object holds `name`, and may hold `description`.                  *)
(***************************************************************************)
\* inspector.py print_endpoint_groups
print_endpoint_groups(doc) ==
    IF doc.tags = <<>> THEN <<Text("No endpoint groups found in the API specification")>>
    ELSE <<Text("Available Endpoint Groups:")>> \o
         CandidateLines([n \in 1..Len(doc.tags) |-> doc.tags[n].name])

\* lines 338-339
ListGroups ==
    /\ tool = "inspector"
    /\ pc = "dispatch"
    /\ IsSet("list_groups")
    /\ out' = out \o print_endpoint_groups(spec)
    /\ exit' = 0
    /\ pc' = "exited"
    /\ UNCHANGED <<tool, args, cwd, spec_file, spec, endpoints, grouped, err, io>>

\* line 242: tag['name'].lower() == group_name.lower()
GroupExactMatches(tags, group_name) ==
    LET IsMatch(tag) == Lower(tag.name) = Lower(group_name) IN SelectSeq(tags, IsMatch)

\* a slip of line 245: the names are compared as they are written
GroupPartialMatches_CaseSensitive(tags, group_name) ==
    LET IsMatch(tag) == Contains(tag.name, group_name) IN SelectSeq(tags, IsMatch)

\* line 245: group_name.lower() in tag['name'].lower()
GroupPartialMatches(tags, group_name) ==
    LET IsMatch(tag) == Contains(Lower(tag.name), Lower(group_name))
    IN  SelectSeq(tags, IsMatch)

\* lines 242-245: the exact matches, and the partial matches only when there is none
GroupMatches(tags, group_name) ==
    IF GroupExactMatches(tags, group_name) # <<>> THEN GroupExactMatches(tags, group_name)
    ELSE GroupPartialMatches(tags, group_name)

\* inspector.py print_endpoint_group_description: the lines printed, and whether
\* tag['description'] raised KeyError
print_endpoint_group_description(doc, group_name) ==
    LET matches == GroupMatches(doc.tags, group_name)
        names(tags) == [n \in 1..Len(tags) |-> tags[n].name]
    IN  IF matches = <<>>
        THEN [out |-> <<Text("No endpoint group found matching"),
                        Text("Available groups:")>> \o CandidateLines(names(doc.tags)),
              crashed |-> FALSE]
        ELSE IF Len(matches) > 1
        THEN [out |-> <<Text("Multiple endpoint groups match")>> \o
                      CandidateLines(names(matches)),
              crashed |-> FALSE]
        ELSE IF "description" \in DOMAIN matches[1]
        THEN [out |-> <<[k |-> "header", tag |-> matches[1].name],
                        [k |-> "description", v |-> matches[1].description]>>,
              crashed |-> FALSE]
        ELSE [out |-> <<[k |-> "header", tag |-> matches[1].name]>>, crashed |-> TRUE]

\* lines 340-341
DescribeGroup ==
    /\ tool = "inspector"
    /\ pc = "dispatch"
    /\ IsSet("describe_group")
    /\ LET printed == print_endpoint_group_description(spec, args.value)
       IN  /\ out' = out \o printed.out
           /\ err' = IF printed.crashed THEN Append(err, Text("KeyError: 'description'"))
                     ELSE err
           /\ exit' = IF printed.crashed THEN 1 ELSE 0
    /\ pc' = "exited"
    /\ UNCHANGED <<tool, args, cwd, spec_file, spec, endpoints, grouped, io>>

(***************************************************************************)
(* --schema, lines 106-115 and 330-331.  `components` is a key the         *)
(* document may hold, and `schemas` a key `components` may hold.           *)
(***************************************************************************)
DocumentWithComponents(paths, tags, components) ==
    [paths |-> paths, tags |-> tags, components |-> components]

\* line 108: spec.get('components', {}).get('schemas', {})
SchemasOf(doc) == Get(Get(doc, "components", <<>>), "schemas", <<>>)

\* line 109: schema_name in schemas
SchemaKnown(schemas, schema_name) == HasKey(schemas, schema_name)

\* a slip of line 110: the diagnostic goes to standard output
print_schema_ToStdout(doc, schema_name) ==
    IF ~SchemaKnown(SchemasOf(doc), schema_name)
    THEN [out |-> <<[k |-> "schema_not_found", name |-> schema_name]>>, err |-> <<>>]
    ELSE [out |-> <<[k |-> "schema", name |-> schema_name],
                    [k |-> "json", v |-> Lookup(SchemasOf(doc), schema_name)]>>,
          err |-> <<>>]

\* inspector.py print_schema
print_schema(doc, schema_name) ==
    IF ~SchemaKnown(SchemasOf(doc), schema_name)
    THEN [out |-> <<>>, err |-> <<[k |-> "schema_not_found", name |-> schema_name]>>]
    ELSE [out |-> <<[k |-> "schema", name |-> schema_name],
                    [k |-> "json", v |-> Lookup(SchemasOf(doc), schema_name)]>>,
          err |-> <<>>]

\* lines 330-331
PrintSchema ==
    /\ tool = "inspector"
    /\ pc = "dispatch"
    /\ IsSet("schema")
    /\ out' = out \o print_schema(spec, args.value).out
    /\ err' = err \o print_schema(spec, args.value).err
    /\ exit' = 0
    /\ pc' = "exited"
    /\ UNCHANGED <<tool, args, cwd, spec_file, spec, endpoints, grouped, io>>

(***************************************************************************)
(* Documents for the grouping views.                                       *)
(***************************************************************************)
\* operations that declare no tags, an empty tag list, one tag or two tags
TagOperations ==
    {EmptyOperation,
     [tags |-> <<>>],
     [summary |-> S_ListUsers, tags |-> <<S_Users>>],
     [tags |-> <<S_Users, S_Usage>>],
     [summary |-> <<"o">>, tags |-> <<S_Other>>]}

TagDocuments ==
    {Document(paths, <<>>) :
        paths \in PathsObjects({S_a, S_b}, {S_get, S_post}, TagOperations,
                               MaxPaths, MaxEndpoints)}

\* path items whose keys may differ only in letter case
MethodDocuments ==
    {Document(paths, <<>>) :
        paths \in PathsObjects({S_a, S_b}, {S_get, S_GET, S_post, S_parameters},
                               {EmptyOperation}, MaxPaths, MaxEndpoints)}

InitTagList ==
    \E doc \in TagDocuments :
        Start("inspector", Args("list", <<>>, "tag", <<>>, <<>>), OneSpecFile(doc))

InitMethodList ==
    \E doc \in MethodDocuments :
    \E filter \in {<<>>, S_get} :
        Start("inspector", Args("list", <<>>, "method", filter, <<>>), OneSpecFile(doc))

S_a_slash == <<"/", "a", "/">>

S_a_bare == <<"a">>

S_a_b == <<"/", "a", "/", "b">>

S_a_methods == <<"/", "a", "/">> \o S_methods

\* paths that differ in their slashes only, a prefix of another, a segment "_methods"
PathDocuments ==
    {Document(paths, <<>>) :
        paths \in PathsObjects({S_a, S_a_slash, S_a_bare, S_a_b, S_a_methods, S_b, <<"/">>},
                               {S_get, S_post}, {EmptyOperation},
                               MaxPaths, MaxEndpoints)}

InitPathList ==
    \E doc \in PathDocuments :
        Start("inspector", Args("list", <<>>, "path", <<>>, <<>>), OneSpecFile(doc))

InitGrouping == InitTagList \/ InitMethodList \/ InitPathList

NextGrouping ==
    \/ FindSpecFile
    \/ ParseOpenapiSpec
    \/ ExtractEndpoints
    \/ ListByPath
    \/ ListByMethod
    \/ ListByTag

SpecGrouping == InitGrouping /\ [][NextGrouping]_vars

S_users == <<"u", "s", "e", "r", "s">>

S_zz == <<"z", "z">>

\* category names that match two tags, one tag, no tag
InitCategory ==
    \E doc \in TagDocuments :
    \E category \in {S_us, S_users, S_zz} :
        Start("inspector", Args("category", category, "none", <<>>, <<>>),
              OneSpecFile(doc))

NextCategory ==
    \/ FindSpecFile
    \/ ParseOpenapiSpec
    \/ ExtractEndpoints
    \/ ShowCategory

SpecCategory == InitCategory /\ [][NextCategory]_vars

(***************************************************************************)
(* Documents with a `tags` list, and group names.                          *)
(***************************************************************************)
S_User == <<"U", "s", "e", "r">>

S_user == <<"u", "s", "e", "r">>

S_use == <<"u", "s", "e">>

GroupTags ==
    {[name |-> S_User, description |-> <<"D", "1">>],
     [name |-> S_Users, description |-> <<"D", "2">>],
     [name |-> S_Users],
     [name |-> S_Other, description |-> <<"D", "3">>]}

InitGroups ==
    \E tags \in SeqsUpTo(GroupTags, MaxGroups) :
    \E a \in {Args("describe_group", S_user, "none", <<>>, <<>>),
              Args("describe_group", S_use, "none", <<>>, <<>>),
              Args("describe_group", S_zz, "none", <<>>, <<>>),
              Args("list_groups", <<>>, "none", <<>>, <<>>)} :
        Start("inspector", a, OneSpecFile(Document(<<>>, tags)))

NextGroups ==
    \/ FindSpecFile
    \/ ParseOpenapiSpec
    \/ ExtractEndpoints
    \/ ListGroups
    \/ DescribeGroup

SpecGroups == InitGroups /\ [][NextGroups]_vars

(***************************************************************************)
(* Documents and names for the lookups of --endpoint and --schema.         *)
(***************************************************************************)
S_Foo == <<"F", "o", "o">>

S_foo == <<"f", "o", "o">>

S_Bar == <<"B", "a", "r">>

SchemaObject == [type |-> <<"o", "b", "j">>]

\* no `schemas` key, or a `schemas` dict of schemas named Foo and Bar
ComponentsObjects ==
    {<<>>} \cup {[schemas |-> schemas] : schemas \in Items({S_Foo, S_Bar}, {SchemaObject}, 2)}

LookupPaths ==
    PathsObjects({S_a, S_b}, {S_get, S_post}, {EmptyOperation, [summary |-> S_ListUsers]},
                 MaxPaths, MaxEndpoints)

LookupDocuments ==
    {Document(paths, <<>>) : paths \in LookupPaths}
    \cup {DocumentWithComponents(paths, <<>>, components) :
             paths \in LookupPaths, components \in ComponentsObjects}

InitLookup ==
    \E doc \in LookupDocuments :
    \E a \in {Args("endpoint", S_a, "none", <<>>, <<>>),
              Args("endpoint", S_a_slash, "none", <<>>, <<>>),
              Args("schema", S_Foo, "none", <<>>, <<>>),
              Args("schema", S_foo, "none", <<>>, <<>>)} :
        Start("inspector", a, OneSpecFile(doc))

NextLookup ==
    \/ FindSpecFile
    \/ ParseOpenapiSpec
    \/ ExtractEndpoints
    \/ PrintSchema
    \/ ShowEndpoint

SpecLookup == InitLookup /\ [][NextLookup]_vars

(***************************************************************************)
(* download_gong_api_spec.py.  The network and the disk answer as they     *)
(* will: each request and each file operation is noted in io with its      *)
(* result.                                                                 *)
(***************************************************************************)
DownloadArgs(output) == [output |-> output]

Request(result) == [op |-> "get", ok |-> result = "ok", result |-> result]

FileOp(op, file, ok) == [op |-> op, file |-> file, ok |-> ok]

\* what requests.get, raise_for_status and response.json can do (lines 20-23)
FetchResults == {"ok", "transport", "http", "body"}

\* what open, json.dump and the close at the end of `with` can do (lines 38-39)
SaveResults == {"ok", "open", "write", "close"}

\* the documents the server may answer with
RemoteDocuments == {Document(paths, <<>>) : paths \in LookupPaths}

S_downloading == "Downloading Gong API specification..."

S_saved == "Saved API specification to"

S_error_downloading == "Error downloading API spec"

S_error_saving == "Error saving API spec"

\* the directory once the file named as `f` is `f`
PutFile(files, f) ==
    IF \E i \in 1..Len(files) : files[i].name = f.name
    THEN [i \in 1..Len(files) |-> IF files[i].name = f.name THEN f ELSE files[i]]
    ELSE Append(files, f)

\* main line 52 and download_gong_spec, lines 9-27.  A body that is not JSON
\* raises a RequestException or a plain ValueError, as the requests library in
\* use has it: the first is caught at line 25, the second ends the process
\* with a traceback.
DownloadGongSpec ==
    /\ tool = "download"
    /\ pc = "start"
    /\ out' = Append(out, Text(S_downloading))
    /\ \E r \in FetchResults :
          /\ io' = Append(io, Request(r))
          /\ IF r = "ok"
             THEN /\ \E doc \in RemoteDocuments : spec' = doc
                  /\ pc' = "save"
                  /\ UNCHANGED <<err, exit>>
             ELSE /\ IF r = "body"
                     THEN err' \in {Append(err, Text(S_error_downloading)),
                                    Append(err, Text("Traceback: ValueError"))}
                     ELSE err' = Append(err, Text(S_error_downloading))
                  /\ exit' = 1
                  /\ pc' = "exited"
                  /\ spec' = spec
    /\ UNCHANGED <<tool, args, cwd, spec_file, endpoints, grouped>>

\* a slip of lines 38-40: the confirmation is printed inside the `with` block,
\* before the file is closed
save_spec_ConfirmsBeforeClose(files, doc, output_file, r) ==
    IF r = "open"
    THEN [cwd |-> files, io |-> <<FileOp("open", output_file, FALSE)>>,
          out |-> <<>>, err |-> <<Text(S_error_saving)>>, exit |-> 1]
    ELSE IF r = "write"
    THEN [cwd |-> PutFile(files, File(output_file, FALSE, EmptyDocument)),
          io |-> <<FileOp("open", output_file, TRUE), FileOp("write", output_file, FALSE)>>,
          out |-> <<>>, err |-> <<Text(S_error_saving)>>, exit |-> 1]
    ELSE IF r = "close"
    THEN [cwd |-> PutFile(files, File(output_file, FALSE, EmptyDocument)),
          io |-> <<FileOp("open", output_file, TRUE), FileOp("write", output_file, TRUE),
                   FileOp("close", output_file, FALSE)>>,
          out |-> <<Text(S_saved)>>, err |-> <<Text(S_error_saving)>>, exit |-> 1]
    ELSE [cwd |-> PutFile(files, File(output_file, TRUE, doc)),
          io |-> <<FileOp("open", output_file, TRUE), FileOp("write", output_file, TRUE),
                   FileOp("close", output_file, TRUE)>>,
          out |-> <<Text(S_saved)>>, err |-> <<>>, exit |-> 0]

\* download_gong_api_spec.py save_spec, lines 29-43, when the disk answers r: the
\* directory, the file operations, the lines printed and the exit status.  A file
\* opened for writing is cut to nothing; it holds the document once closed.
save_spec(files, doc, output_file, r) ==
    IF r = "open"
    THEN [cwd |-> files, io |-> <<FileOp("open", output_file, FALSE)>>,
          out |-> <<>>, err |-> <<Text(S_error_saving)>>, exit |-> 1]
    ELSE IF r = "write"
    THEN [cwd |-> PutFile(files, File(output_file, FALSE, EmptyDocument)),
          io |-> <<FileOp("open", output_file, TRUE), FileOp("write", output_file, FALSE)>>,
          out |-> <<>>, err |-> <<Text(S_error_saving)>>, exit |-> 1]
    ELSE IF r = "close"
    THEN [cwd |-> PutFile(files, File(output_file, FALSE, EmptyDocument)),
          io |-> <<FileOp("open", output_file, TRUE), FileOp("write", output_file, TRUE),
                   FileOp("close", output_file, FALSE)>>,
          out |-> <<>>, err |-> <<Text(S_error_saving)>>, exit |-> 1]
    ELSE [cwd |-> PutFile(files, File(output_file, TRUE, doc)),
          io |-> <<FileOp("open", output_file, TRUE), FileOp("write", output_file, TRUE),
                   FileOp("close", output_file, TRUE)>>,
          out |-> <<Text(S_saved)>>, err |-> <<>>, exit |-> 0]

\* main line 54
SaveSpec ==
    /\ tool = "download"
    /\ pc = "save"
    /\ \E r \in SaveResults :
          LET saved == save_spec(cwd, spec, args.output, r)
          IN  /\ cwd' = saved.cwd
              /\ io' = io \o saved.io
              /\ out' = out \o saved.out
              /\ err' = err \o saved.err
              /\ exit' = saved.exit
    /\ pc' = "exited"
    /\ UNCHANGED <<tool, args, spec_file, spec, endpoints, grouped>>

InitDownload ==
    \E output \in {S_gong_openapi, S_spec_json} :
    \E files \in {<<>>, <<File(S_gong_openapi, FALSE, EmptyDocument)>>,
                  <<File(S_spec_json, TRUE, EmptyDocument)>>} :
        Start("download", DownloadArgs(output), files)

NextDownload ==
    \/ DownloadGongSpec
    \/ SaveSpec

SpecDownload == InitDownload /\ [][NextDownload]_vars

(***************************************************************************)
(* The tools as a whole: every command line of the model, in working       *)
(* directories with no specification file, one that is not JSON, one under *)
(* another name, and one or two that hold a document.                      *)
(***************************************************************************)
SmallDocuments ==
    {EmptyDocument,
     Document(<<Entry(S_b, <<Entry(S_get, [summary |-> <<"U", "s">>, tags |-> <<S_Users>>]),
                             Entry(S_parameters, EmptyOperation)>>),
                Entry(S_a, <<Entry(S_post, [tags |-> <<S_Usage>>])>>)>>,
              <<[name |-> S_Users, description |-> <<"D", "2">>], [name |-> S_Usage]>>)}

WorkingDirectories ==
    {<<>>, <<File(S_gong_openapi, FALSE, EmptyDocument)>>,
     <<File(S_spec_json, TRUE, EmptyDocument)>>}
    \cup {OneSpecFile(doc) : doc \in SmallDocuments}
    \cup {<<File(S_spec_json, TRUE, doc), File(S_gong_openapi, TRUE, EmptyDocument)>> :
             doc \in SmallDocuments}

InspectorCommandLines ==
    {Args(a, <<>>, "none", m, f) :
        a \in {"none", "list_groups"}, m \in {<<>>, S_GET}, f \in {<<>>, S_spec_json}}
    \cup {Args("list", <<>>, g, m, f) :
             g \in {"none", "path", "method", "tag"}, m \in {<<>>, S_GET},
             f \in {<<>>, S_spec_json}}
    \cup {Args(a, v, "none", <<>>, f) :
             a \in {"endpoint", "schema", "search", "category", "describe_group"},
             v \in {<<>>, S_us, S_a}, f \in {<<>>, S_spec_json}}

InitInspector ==
    \E a \in InspectorCommandLines : \E files \in WorkingDirectories :
        Start("inspector", a, files)

InitSimple ==
    \E a \in {Args(x, <<>>, "none", m, f) :
                 x \in {"none", "list"}, m \in {<<>>, S_GET},
                 f \in {S_spec_json, S_gong_openapi}} :
    \E files \in WorkingDirectories :
        Start("parse_api_spec", a, files)

Init == InitInspector \/ InitSimple \/ InitDownload

Next ==
    \/ FindSpecFile
    \/ ParseOpenapiSpec
    \/ ExtractEndpoints
    \/ PrintSchema
    \/ ShowEndpoint
    \/ Search
    \/ ShowCategory
    \/ ListGroups
    \/ DescribeGroup
    \/ ListPlain
    \/ ListByPath
    \/ ListByMethod
    \/ ListByTag
    \/ PrintHelp
    \/ SimpleParseOpenapiSpec
    \/ SimpleExtractEndpoints
    \/ SimpleList
    \/ DownloadGongSpec
    \/ SaveSpec

Spec == Init /\ [][Next]_vars

(***************************************************************************)
(* C1: the total count of the tag grouping.                                *)
(***************************************************************************)
Max(a, b) == IF a >= b THEN a ELSE b

\* the extracted endpoints, as <<path index, method index>> pairs
EndpointIndices ==
    {ij \in (1..Len(endpoints)) \X (1..MaxEndpoints + 1) :
        ij[2] <= Len(endpoints[ij[1]].value)}

RECURSIVE SumOver(_, _)
SumOver(S, f) ==
    IF S = {} THEN 0
    ELSE LET x == CHOOSE y \in S : TRUE IN f[x] + SumOver(S \ {x}, f)

GroupedByTag == pc = "exited" /\ grouped.view = "tag"

\* C1: after extract_endpoints and group_by_tag, the records of all tag buckets
\* number the sum over the extracted endpoints of max(1, number of declared tags),
\* and an endpoint without tags has exactly one record, in the "untagged" bucket.
C1_TagGroupingTotal ==
    GroupedByTag =>
        LET g == grouped.data
            declared == [ij \in EndpointIndices |->
                            Len(endpoints[ij[1]].value[ij[2]].value.tags)]
        IN  /\ SumSeq([b \in 1..Len(g) |-> Len(g[b].value)])
                  = SumOver(EndpointIndices,
                            [ij \in EndpointIndices |-> Max(1, declared[ij])])
            /\ \A ij \in EndpointIndices :
                  declared[ij] = 0 =>
                      /\ HasKey(g, S_untagged)
                      /\ Cardinality(
                            {r \in 1..Len(Lookup(g, S_untagged)) :
                                /\ Lookup(g, S_untagged)[r].path = endpoints[ij[1]].key
                                /\ Lookup(g, S_untagged)[r].method
                                       = Upper(endpoints[ij[1]].value[ij[2]].key)}) = 1

(***************************************************************************)
(* C4: the method grouping lists a path once under each verb it supports.  *)
(***************************************************************************)
GroupedByMethod == pc = "exited" /\ grouped.view = "method"

Verbs == {Upper(m) : m \in HttpMethods}

\* C4: group_by_method maps each uppercased verb to the paths that support it, each
\* path exactly once under each verb it supports, also when the source writes the
\* verb under keys that differ only in letter case, and under no other verb.
C4_MethodGroupingOnce ==
    GroupedByMethod =>
        LET g == grouped.data
        IN  /\ Range(Keys(g)) \subseteq Verbs
            /\ \A i \in 1..Len(endpoints) : \A v \in Verbs :
                  LET supports == \E j \in 1..Len(endpoints[i].value) :
                                      Upper(endpoints[i].value[j].key) = v
                      listed == IF HasKey(g, v)
                                THEN Cardinality({n \in 1..Len(Lookup(g, v)) :
                                                    Lookup(g, v)[n] = endpoints[i].key})
                                ELSE 0
                  IN  listed = IF supports THEN 1 ELSE 0

(***************************************************************************)
(* C2: the path grouping is lossless and reversible.                       *)
(***************************************************************************)
GroupedByPath == pc = "exited" /\ grouped.view = "path"

\* the chains of the dicts print_grouped_endpoints walks: the root and the dicts
\* reached through keys other than "_methods"
WalkedChains(t) ==
    {<<>>} \cup {t[i].chain : i \in {n \in 1..Len(t) : S_methods \notin Range(t[n].chain)}}

\* the <<path, method>> pairs read off the tree: the keys of each walked dict's
\* "_methods" value, with the slash-joined chain that leads to the dict
Recovered(t, eps) ==
    UNION {{<<Join(c, <<"/">>), MethodItems(t, eps, Append(c, S_methods))[n].key>> :
               n \in 1..Len(MethodItems(t, eps, Append(c, S_methods)))}
           : c \in {w \in WalkedChains(t) : TreeHas(t, Append(w, S_methods))}}

\* the <<path, method>> pairs of the extractor's output for the loaded document
ExtractedPairs ==
    LET eps == extract_endpoints(spec)
    IN  UNION {{<<eps[i].key, eps[i].value[j].key>> : j \in 1..Len(eps[i].value)}
               : i \in 1..Len(eps)}

\* C2: the pairs recovered by walking the tree of group_by_path are the input pairs,
\* one for one, each path read without its leading and trailing slashes, whatever
\* the paths are (paths that differ in such slashes only, a segment "_methods").
C2_PathGroupingLossless ==
    GroupedByPath =>
        /\ Recovered(grouped.data, extract_endpoints(spec))
               = {<<Strip(pm[1], "/"), pm[2]>> : pm \in ExtractedPairs}
        /\ Cardinality(Recovered(grouped.data, extract_endpoints(spec)))
               = Cardinality(ExtractedPairs)

(***************************************************************************)
(* C3: extractor completeness and restriction.                             *)
(***************************************************************************)
Extracted == pc \in {"dispatch", "exited"}

\* The output has the document's paths, in order, and under each path one record
\* for each key that is an HTTP method (in any letter case) and none for another key.
ExtractorKeys ==
    /\ Len(endpoints) = Len(spec.paths)
    /\ \A i \in 1..Len(spec.paths) :
        LET item == spec.paths[i].value
            got  == endpoints[i].value
        IN  /\ endpoints[i].key = spec.paths[i].key
            /\ Range(Keys(got)) \subseteq Range(Keys(item))
            /\ \A k \in Range(Keys(item)) :
                  Cardinality({j \in 1..Len(got) : got[j].key = k})
                      = IF Lower(k) \in HttpMethods THEN 1 ELSE 0

\* Every record holds exactly the fields `fields`, each with the source's value, or
\* the empty default when the source operation does not hold the field.
ExtractorFields(fields) ==
    \A i \in 1..Len(endpoints) :
        \A j \in 1..Len(endpoints[i].value) :
            LET rec == endpoints[i].value[j].value
                src == Lookup(spec.paths[i].value, endpoints[i].value[j].key)
            IN  /\ DOMAIN rec = fields
                /\ \A f \in fields :
                      rec[f] = IF f \in DOMAIN src THEN src[f] ELSE <<>>

\* C3 as claimed: in both tools the extractor keeps exactly the HTTP method keys and
\* every record holds the seven fields summary, description, parameters, requestBody,
\* responses, tags and operationId, defaulted when absent.
C3_SevenFieldsInBothTools ==
    Extracted => ExtractorKeys /\ ExtractorFields(FieldNames)

\* C3 as amended: the extractor of each tool keeps exactly the HTTP method keys; the
\* inspector's records hold the seven fields, the simpler tool's records hold only
\* summary, description, parameters, requestBody and responses, each equal to the
\* source's value when present and to the empty default when absent.
C3_ExtractorRecords ==
    Extracted =>
        /\ ExtractorKeys
        /\ ExtractorFields(IF tool = "inspector" THEN FieldNames
                           ELSE FieldNames \ {"tags", "operationId"})

\* The simpler tool has extracted a record from an operation written with an upper
\* case letter that lacks fields, beside a key that is no HTTP method.
C3_Witness ==
    /\ Extracted
    /\ tool = "parse_api_spec"
    /\ \E i \in 1..Len(spec.paths) :
        /\ HasKey(spec.paths[i].value, S_parameters)
        /\ HasKey(endpoints[i].value, S_Post)
        /\ "summary" \notin DOMAIN Lookup(spec.paths[i].value, S_Post)

(***************************************************************************)
(* C5, C6: what the search reports.                                        *)
(***************************************************************************)
Searched == pc = "exited" /\ IsSet("search")

\* The reports of a search output: each path line with the method lines below it.
RECURSIVE Reports(_)
Reports(lines) ==
    IF lines = <<>> THEN <<>>
    ELSE LET last == lines[Len(lines)]
             before == Reports(SubSeq(lines, 1, Len(lines) - 1))
         IN  IF last.k = "path" THEN Append(before, [path |-> last.path, methods |-> <<>>])
             ELSE IF last.k = "method" /\ before # <<>>
             THEN [before EXCEPT ![Len(before)].methods =
                      Append(@, <<last.method, last.summary>>)]
             ELSE before

ReportsOf(path) == LET Is(r) == r.path = path IN SelectSeq(Reports(out), Is)

\* C5: an endpoint whose path matches the pattern is reported once, with each of
\* its methods and that method's summary, and never a further time because one of
\* its summaries or descriptions matches too.
C5_PathMatchReportedOnce ==
    Searched =>
        \A i \in 1..Len(endpoints) :
            RegexSearch(args.value, endpoints[i].key) =>
                ReportsOf(endpoints[i].key) =
                    <<[path |-> endpoints[i].key,
                       methods |-> [j \in 1..Len(endpoints[i].value) |->
                                       <<Upper(endpoints[i].value[j].key),
                                         endpoints[i].value[j].value.summary>>]]>>

\* the methods of endpoint i whose summary or description matches the pattern
TextHits(i) ==
    {j \in 1..Len(endpoints[i].value) :
        \/ Contains(Lower(endpoints[i].value[j].value.summary), Lower(args.value))
        \/ Contains(Lower(endpoints[i].value[j].value.description), Lower(args.value))}

\* C6: an endpoint whose path does not match is reported exactly once, with the
\* first method in encounter order whose summary or description matches, when
\* there is such a method, and not at all when there is none.
C6_TextMatchReportedOnce ==
    Searched =>
        \A i \in 1..Len(endpoints) :
            ~Contains(Lower(endpoints[i].key), Lower(args.value)) =>
                IF TextHits(i) = {} THEN ReportsOf(endpoints[i].key) = <<>>
                ELSE LET first == CHOOSE j \in TextHits(i) : \A n \in TextHits(i) : j <= n
                     IN  ReportsOf(endpoints[i].key) =
                            <<[path |-> endpoints[i].key,
                               methods |-> <<<<Upper(endpoints[i].value[first].key),
                                               endpoints[i].value[first].value.summary>>>>]>>

\* A search has met a path that does not match with two methods that match, one of
\* them by its description only.
C6_Witness ==
    /\ Searched
    /\ \E i \in 1..Len(endpoints) :
        /\ ~Contains(Lower(endpoints[i].key), Lower(args.value))
        /\ Cardinality(TextHits(i)) >= 2
        /\ \E j \in TextHits(i) :
              ~Contains(Lower(endpoints[i].value[j].value.summary), Lower(args.value))

(***************************************************************************)
(* C7, C8: the category lookup.                                            *)
(***************************************************************************)
CategoryDone == pc = "exited" /\ IsSet("category")

\* the tags the extracted endpoints declare
DeclaredTags ==
    UNION {Range(endpoints[ij[1]].value[ij[2]].value.tags) : ij \in EndpointIndices}

\* the tag names of the grouping that hold the category name, letter case aside
CategoryMatchSet ==
    {t \in Range(Keys(grouped.data)) : Contains(Lower(t), Lower(args.value))}

CandidatesPrinted ==
    LET IsCandidate(l) == l.k = "candidate"
        lines == SelectSeq(out, IsCandidate)
    IN  [n \in 1..Len(lines) |-> lines[n].tag]

\* only a heading and candidate names were printed
NothingSelected ==
    /\ \A n \in 1..Len(out) : out[n].k \in {"text", "candidate"}
    /\ \A n \in 1..Len(out) :
          out[n].k = "text" =>
              out[n].s \in {"No category found matching", "Available categories:",
                            "Multiple categories match"}
    /\ err = <<>>

\* C7: the category name is matched as a substring, letter case aside, against the
\* tag names of the tag grouping; with no match the available tags are printed,
\* with two or more exactly the matching names, and in both cases no endpoint
\* summary or detail is printed and no tag is selected.
C7_CategoryWithoutUniqueMatch ==
    CategoryDone =>
        /\ Range(Keys(grouped.data)) = DeclaredTags
        /\ Cardinality(CategoryMatchSet) = 0 =>
              /\ out[1] = Text("No category found matching")
              /\ Range(CandidatesPrinted) = DeclaredTags
              /\ Len(CandidatesPrinted) = Cardinality(DeclaredTags)
              /\ NothingSelected
        /\ Cardinality(CategoryMatchSet) >= 2 =>
              /\ out[1] = Text("Multiple categories match")
              /\ Range(CandidatesPrinted) = CategoryMatchSet
              /\ Len(CandidatesPrinted) = Cardinality(CategoryMatchSet)
              /\ NothingSelected

\* "us" was looked up in a grouping with the tags Users, Usage and Other.
C7_Witness ==
    /\ CategoryDone
    /\ Cardinality(CategoryMatchSet) = 2
    /\ Cardinality(DeclaredTags) = 3

\* The <<path, method>> pairs whose detail was printed, in order: each "Method"
\* line with the path of the "Endpoint" line above it.
RECURSIVE DetailPairs(_)
DetailPairs(lines) ==
    IF lines = <<>> THEN [path |-> <<>>, pairs |-> <<>>]
    ELSE LET last == lines[Len(lines)]
             before == DetailPairs(SubSeq(lines, 1, Len(lines) - 1))
         IN  IF last.k = "endpoint" THEN [path |-> last.path, pairs |-> before.pairs]
             ELSE IF last.k = "Method"
             THEN [path |-> before.path,
                   pairs |-> Append(before.pairs, <<before.path, last.v>>)]
             ELSE before

SummaryPairs ==
    LET IsSummary(l) == l.k = "summary"
        lines == SelectSeq(out, IsSummary)
    IN  [n \in 1..Len(lines) |-> <<lines[n].path, lines[n].method>>]

Occurrences(s, x) == Cardinality({n \in 1..Len(s) : s[n] = x})

PathSorted(pairs) ==
    \A n \in 1..(Len(pairs) - 1) : ~StrLess(pairs[n + 1][1], pairs[n][1])

\* C8: with exactly one matching tag, one summary line is printed for each
\* endpoint (path, method) that carries the tag, then the detail of each such
\* endpoint, in path-sorted order, the detail of each endpoint once and of no
\* endpoint that does not carry the tag.
C8_CategoryDump ==
    (CategoryDone /\ Cardinality(CategoryMatchSet) = 1) =>
        LET tag == CHOOSE t \in CategoryMatchSet : TRUE
        IN  /\ PathSorted(SummaryPairs)
            /\ PathSorted(DetailPairs(out).pairs)
            /\ \A ij \in EndpointIndices :
                  LET e == endpoints[ij[1]].value[ij[2]]
                      pair == <<endpoints[ij[1]].key, Upper(e.key)>>
                      carries == IF tag \in Range(e.value.tags) THEN 1 ELSE 0
                  IN  /\ Occurrences(SummaryPairs, pair) = carries
                      /\ Occurrences(DetailPairs(out).pairs, pair) = carries

(***************************************************************************)
(* C9: an ambiguous group name.                                            *)
(***************************************************************************)
GroupDescribed == pc = "exited" /\ IsSet("describe_group")

\* the entries of the `tags` list whose name holds the given name, letter case aside
PartialGroups ==
    {n \in 1..Len(spec.tags) : Contains(Lower(spec.tags[n].name), Lower(args.value))}

\* the entries of the `tags` list whose name is the given name, letter case aside
ExactGroups == {n \in 1..Len(spec.tags) : Lower(spec.tags[n].name) = Lower(args.value)}

\* the names of the entries of `which`, in the order of the `tags` list
GroupNames(which) ==
    LET Sel(n) == n \in which
        idx == SelectSeq([n \in 1..Len(spec.tags) |-> n], Sel)
    IN  [n \in 1..Len(idx) |-> spec.tags[idx[n]].name]

AllCandidatesNoSelection(which) ==
    /\ out = <<Text("Multiple endpoint groups match")>> \o CandidateLines(GroupNames(which))
    /\ err = <<>>
    /\ exit = 0

NoArguments == tool = "inspector" /\ args = Args("none", <<>>, "none", <<>>, <<>>)

\* C10: started without a primary action and without arguments, the inspector ends
\* having printed the help, with status 0, whatever the working directory holds.
C10_HelpWithoutArguments ==
    (NoArguments /\ pc = "exited") => (exit = 0 /\ [k |-> "help"] \in Range(out))

(***************************************************************************)
(* C11: lookups of a name that is not there.                               *)
(***************************************************************************)
LookupDone == pc = "exited" /\ (IsSet("endpoint") \/ IsSet("schema"))

EndpointAbsent == IsSet("endpoint") /\ args.value \notin Range(Keys(endpoints))

\* the keys of components.schemas, none when `components` or `schemas` is missing
SchemaNames ==
    IF "components" \notin DOMAIN spec THEN {}
    ELSE IF "schemas" \notin DOMAIN spec.components THEN {}
    ELSE {spec.components.schemas[i].key : i \in 1..Len(spec.components.schemas)}

SchemaAbsent == IsSet("schema") /\ args.value \notin SchemaNames

NotFoundDiagnostic ==
    IF IsSet("endpoint") THEN [k |-> "endpoint_not_found", path |-> args.value]
    ELSE [k |-> "schema_not_found", name |-> args.value]

Downloaded == tool = "download" /\ pc = "exited"

Ops(op) == {i \in 1..Len(io) : io[i].op = op}

FileOps == Ops("open") \cup Ops("write") \cup Ops("close")

FetchFailed == \E i \in Ops("get") : io[i].result \in {"transport", "http"}

SaveFailed == \E i \in FileOps : ~io[i].ok

SaveCompleted ==
    /\ \E i \in Ops("close") : io[i].ok
    /\ File(args.output, TRUE, spec) \in Range(cwd)

\* C12: in every run of the download tool the fetch comes first and a file operation
\* only after a fetch that succeeded; a transport or HTTP failure of the fetch prints
\* the download diagnostic and exits 1 with no file opened or written; a failure to
\* open, write or close the file prints the save diagnostic and exits 1; "Saved" is
\* printed only when the save completed; there is at most one request and at most
\* one opening of the file.
C12_FetchThenSaveOnce ==
    tool = "download" =>
        /\ \A i \in FileOps : \E j \in Ops("get") : j < i /\ io[j].ok
        /\ (Downloaded /\ FetchFailed) =>
               /\ err = <<Text(S_error_downloading)>>
               /\ exit = 1
               /\ FileOps = {}
        /\ (Downloaded /\ SaveFailed) =>
               /\ err = <<Text(S_error_saving)>>
               /\ exit = 1
        /\ Text(S_saved) \in Range(out) => SaveCompleted
        /\ Cardinality(Ops("get")) <= 1
        /\ Cardinality(Ops("open")) <= 1
        /\ pc = "exited" => Ops("get") # {}

\* A document of two paths was fetched and the file, opened, could not be written.
C12_Witness ==
    /\ Downloaded
    /\ Len(spec.paths) = 2
    /\ \E i \in Ops("write") : ~io[i].ok
    /\ exit = 1

====
